---- MODULE Spec2Model ----
(***************************************************************************)
(* goldengraphs.algorithms: the shortest-path family (dijkstra,            *)
(* dijkstra_all_paths, a_star), kahn, UnionFind, kruskal and the           *)
(* DirectedGraph / Graph classes, as state machines.                       *)
(*                                                                         *)
(* Each component has its own specification (SpecSP, SpecKahn, ...); the   *)
(* variables of the other components keep their initial value there.      *)
(***************************************************************************)
EXTENDS Integers, Sequences, FiniteSets, TLC

\* ------------------------------------------------------------------ bounds
\* The edge weights of an enumerated graph are naturals that sum to at most
\* MaxTotalW.
MaxTotalW == 2
\* The values of an enumerated heuristic are naturals that sum to at most
\* MaxTotalH.
MaxTotalH == 1

\* float("inf"): larger than every path weight of the enumerated graphs.
Inf == 1000000

\* The node universe of the enumerated shortest-path inputs.
Nodes == {1, 2, 3, 4}

VARIABLES
    \* ---- shortest_path.py: the inputs of the calls
    adjs,       \* adjs(n): the sequence of <<neighbor, weight>> it yields
    source,
    goals,      \* is_goal(n, d) == n \in goals
    h,          \* the heuristic passed to a_star
    \* ---- shortest_path.py: the locals of the running call
    running,    \* "idle", or the name of the function whose loop is running
    dists,
    parent,
    visited,
    counter,
    q,          \* the heap, as the set of its <<priority, counter, node>> entries
    hist,       \* function name -> the locals after each iteration of its loop
    steps,      \* function name -> the arguments of its on_step calls so far
    returned,   \* function name -> value returned by the call
    \* ---- topological.py: the inputs and locals of kahn
    nodes,      \* the set nodes, as the sequence its iteration yields
    kadjs,      \* adjs(n): the sequence of neighbors it yields
    kahn_pc,    \* "idle", "loop" (at line 38) or "done"
    in_degree,
    order,
    kq,         \* the deque q
    ksteps,     \* the arguments of kahn's on_step calls so far
    \* ---- union_find.py: a UnionFind object and the calls made on it
    uf_parent,  \* self.parent
    rank,       \* self.rank
    groups,     \* the elements passed to union so far, grouped by the
                \* reflexive-symmetric-transitive closure of the union calls
    last_find,  \* [x, ret] of the latest call if it was find(x), else NoFind
    \* ---- graph.py: a DirectedGraph or Graph object
    cls,        \* the class of the object: "DirectedGraph" or "Graph"
    graph,      \* self.adjs: node -> (neighbor -> weight)
    last_removed, \* [n, ret] of the latest call if it was remove_node(n), else
                \* NoRemove
    \* ---- minimum_spanning_tree.py: a call kruskal(graph)
    edges_iter, \* the triples graph.get_edges() yields, in its order
    kruskal_pc, \* "idle" or "done"
    mst         \* adjs of the DirectedGraph kruskal returned

spVars == <<adjs, source, goals, h, running, dists, parent, visited, counter, q,
            hist, steps, returned>>

kahnVars == <<nodes, kadjs, kahn_pc, in_degree, order, kq, ksteps>>

ufVars == <<uf_parent, rank, groups, last_find>>

graphVars == <<cls, graph, last_removed>>

kruskalVars == <<edges_iter, kruskal_pc, mst>>

vars == <<spVars, kahnVars, ufVars, graphVars, kruskalVars>>

\* ------------------------------------------------------- helpers (Python)
\* Mutant of TupleLess: among equal priorities the later push is the smaller.
TupleLessLastFirst(a, b) == a[1] < b[1] \/ (a[1] = b[1] /\ a[2] > b[2])

\* min of a non-empty set of <<priority, counter, node>> tuples in Python's
\* tuple order; counters are pairwise distinct, so nodes are never compared.
TupleLess(a, b) == a[1] < b[1] \/ (a[1] = b[1] /\ a[2] < b[2])

HeapMin(heap) == CHOOSE e \in heap : \A o \in heap : o = e \/ TupleLess(e, o)

\* Mutant of DistGet: the default of the lookup is 0.
DistGetZero(d, n) == IF n \in DOMAIN d THEN d[n] ELSE 0

\* dists.get(n, float("inf"))
DistGet(d, n) == IF n \in DOMAIN d THEN d[n] ELSE Inf

\* d[k] = v on a dict
DictSet(d, k, v) == [x \in (DOMAIN d) \cup {k} |-> IF x = k THEN v ELSE d[x]]

Reverse(s) == [i \in 1..Len(s) |-> s[Len(s) + 1 - i]]

\* The members of S in ascending order.
RECURSIVE Ascending(_)
Ascending(S) ==
    IF S = {} THEN <<>>
    ELSE LET m == CHOOSE x \in S : \A y \in S : x <= y
         IN  <<m>> \o Ascending(S \ {m})

\* utils.reconstruct_path; the walk is cut after Cardinality(Nodes) + 1 links,
\* where the code would loop forever or raise KeyError.
RECURSIVE WalkBack(_, _, _, _)
WalkBack(src, cur, par, acc) ==
    IF cur = src THEN acc
    ELSE IF cur \notin DOMAIN par \/ Len(acc) > Cardinality(Nodes) THEN <<>>
    ELSE WalkBack(src, par[cur], par, Append(acc, par[cur]))

reconstruct_path(src, target, par) == Reverse(WalkBack(src, target, par, <<target>>))

\* How utils.reconstruct_path ends: "ok" (it returns), "KeyError" (parent[curr]
\* of a node without parent raises) or "loop" (the parent links cycle and the
\* while loop never ends); n bounds the walk by the number of nodes.
RECURSIVE WalkEnds(_, _, _, _)
WalkEnds(src, cur, par, n) ==
    IF cur = src THEN "ok"
    ELSE IF cur \notin DOMAIN par THEN "KeyError"
    ELSE IF n = 0 THEN "loop"
    ELSE WalkEnds(src, par[cur], par, n - 1)

\* return (reconstruct_path(source, curr, parent), dists[curr]); raised tells
\* that the call ended in KeyError instead (path and dist are then no values).
ReturnPath(src, cur, par, d) ==
    IF WalkEnds(src, cur, par, Cardinality(Nodes)) = "ok"
    THEN [path |-> reconstruct_path(src, cur, par), dist |-> d[cur], raised |-> FALSE]
    ELSE [path |-> <<>>, dist |-> 0, raised |-> TRUE]

\* return [], float("inf")
ReturnUnreachable == [path |-> <<>>, dist |-> Inf, raised |-> FALSE]

Functions == {"dijkstra", "dijkstra_all_paths", "a_star"}


EmptyDict == [x \in {} |-> 0]

\* ------------------------------------- the components before any call
NoFind == [x |-> 0, ret |-> 0]

\* No call is running and none was made.
SPIdle ==
    /\ adjs = [n \in Nodes |-> <<>>]
    /\ source = 1
    /\ goals = {}
    /\ h = [n \in Nodes |-> 0]
    /\ running = "idle"
    /\ dists = EmptyDict
    /\ parent = EmptyDict
    /\ visited = {}
    /\ counter = 0
    /\ q = {}
    /\ hist = [f \in Functions |-> <<>>]
    /\ steps = [f \in Functions |-> <<>>]
    /\ returned = EmptyDict

KahnIdle ==
    /\ nodes = <<>>
    /\ kadjs = <<>>
    /\ kahn_pc = "idle"
    /\ in_degree = EmptyDict
    /\ order = <<>>
    /\ kq = <<>>
    /\ ksteps = <<>>

\* lines 9-12
UFEmpty ==
    /\ uf_parent = EmptyDict
    /\ rank = EmptyDict
    /\ groups = {}
    /\ last_find = NoFind

NoRemove == [n |-> 0, ret |-> FALSE]

\* No graph object is in use.
GraphIdle ==
    /\ cls = "DirectedGraph"
    /\ graph = EmptyDict
    /\ last_removed = NoRemove

\* No call of kruskal was made.
KruskalIdle ==
    /\ edges_iter = <<>>
    /\ kruskal_pc = "idle"
    /\ mst = EmptyDict

\* ------------------------------------------------ shortest_path.dijkstra
\* Mutant of DijkstraRelax: an entry is pushed for every edge, improving or not.
RECURSIVE DijkstraRelaxPushAlways(_, _, _, _)
DijkstraRelaxPushAlways(st, curr, edges, i) ==
    IF i > Len(edges) THEN st
    ELSE LET adj      == edges[i][1]
             adj_dist == edges[i][2]
             dist     == st.dists[curr] + adj_dist
             better   == dist < DistGet(st.dists, adj)
             d2       == IF better THEN DictSet(st.dists, adj, dist) ELSE st.dists
         IN  DijkstraRelaxPushAlways(
                [dists   |-> d2,
                 counter |-> st.counter + 1,
                 q       |-> st.q \cup {<<d2[adj], st.counter + 1, adj>>},
                 parent  |-> IF better THEN DictSet(st.parent, adj, curr) ELSE st.parent],
                curr, edges, i + 1)

\* Mutant of DijkstraRelax: a node's distance is set only when it is first seen.
RECURSIVE DijkstraRelaxFirstSeen(_, _, _, _)
DijkstraRelaxFirstSeen(st, curr, edges, i) ==
    IF i > Len(edges) THEN st
    ELSE LET adj      == edges[i][1]
             adj_dist == edges[i][2]
             dist     == st.dists[curr] + adj_dist
         IN  IF adj \notin DOMAIN st.dists
             THEN DijkstraRelaxFirstSeen(
                    [dists   |-> DictSet(st.dists, adj, dist),
                     counter |-> st.counter + 1,
                     q       |-> st.q \cup {<<dist, st.counter + 1, adj>>},
                     parent  |-> DictSet(st.parent, adj, curr)],
                    curr, edges, i + 1)
             ELSE DijkstraRelaxFirstSeen(st, curr, edges, i + 1)

\* for adj, adj_dist in adjs(curr): ... (lines 56-62), from the i-th pair on;
\* st holds the locals dists, parent, counter, q.
RECURSIVE DijkstraRelax(_, _, _, _)
DijkstraRelax(st, curr, edges, i) ==
    IF i > Len(edges) THEN st
    ELSE LET adj      == edges[i][1]
             adj_dist == edges[i][2]
             dist     == st.dists[curr] + adj_dist
         IN  IF dist < DistGet(st.dists, adj)
             THEN DijkstraRelax(
                    [dists   |-> DictSet(st.dists, adj, dist),
                     counter |-> st.counter + 1,
                     q       |-> st.q \cup {<<dist, st.counter + 1, adj>>},
                     parent  |-> DictSet(st.parent, adj, curr)],
                    curr, edges, i + 1)
             ELSE DijkstraRelax(st, curr, edges, i + 1)

\* queue_view = [(priority, node) for priority, _, node in q] (line 50): the
\* pairs of the heap's entries, each with the number of entries it stands for
QueueView(heap) ==
    [pn \in {<<e[1], e[3]>> : e \in heap} |->
        Cardinality({e \in heap : <<e[1], e[3]>> = pn})]

\* Mutant of OnStep: the callback is not called.
OnStepNever(log, curr, v, d, p, heap) == log

\* if on_step: ... on_step(curr, visited, dists, parent, queue_view) (lines
\* 49-51), log being the calls made before
OnStep(log, curr, v, d, p, heap) ==
    Append(log, [curr |-> curr, visited |-> v, dists |-> d, parent |-> p,
                 queue_view |-> QueueView(heap)])

\* The locals as one record, as hist keeps them.
Locals(d, p, v, c, heap) ==
    [dists |-> d, parent |-> p, visited |-> v, counter |-> c, q |-> heap]

\* lines 36-41
DijkstraCall ==
    /\ running = "idle"
    /\ "dijkstra" \notin DOMAIN returned
    /\ running' = "dijkstra"
    /\ dists' = [n \in {source} |-> 0]
    /\ parent' = EmptyDict
    /\ visited' = {}
    /\ counter' = 0
    /\ q' = {<<0, 0, source>>}
    /\ UNCHANGED <<adjs, source, goals, h, hist, steps, returned>>

\* lines 43-46: the popped node is already visited
DijkstraStale ==
    /\ running = "dijkstra"
    /\ q # {}
    /\ LET e == HeapMin(q) IN
        /\ e[3] \in visited
        /\ q' = q \ {e}
        /\ hist' = [hist EXCEPT !["dijkstra"] = Append(@, Locals(dists, parent, visited, counter, q'))]
        /\ UNCHANGED steps
    /\ UNCHANGED <<adjs, source, goals, h, running, dists, parent, visited,
                   counter, returned>>

\* lines 43-54: the popped node is the goal
DijkstraGoal ==
    /\ running = "dijkstra"
    /\ q # {}
    /\ LET e == HeapMin(q)
           curr == e[3]
       IN
        /\ curr \notin visited
        /\ curr \in goals
        /\ WalkEnds(source, curr, parent, Cardinality(Nodes)) # "loop"
        /\ q' = q \ {e}
        /\ visited' = visited \cup {curr}
        /\ hist' = [hist EXCEPT !["dijkstra"] = Append(@, Locals(dists, parent, visited', counter, q'))]
        /\ steps' = [steps EXCEPT !["dijkstra"] = OnStep(@, curr, visited', dists, parent, q \ {e})]
        /\ returned' = DictSet(returned, "dijkstra",
                          ReturnPath(source, curr, parent, dists))
    /\ running' = "idle"
    /\ UNCHANGED <<adjs, source, goals, h, dists, parent, counter>>

\* lines 43-62: the popped node is expanded
DijkstraExpand ==
    /\ running = "dijkstra"
    /\ q # {}
    /\ LET e == HeapMin(q)
           curr == e[3]
           st == DijkstraRelax([dists |-> dists, counter |-> counter,
                                q |-> q \ {e}, parent |-> parent],
                               curr, adjs[curr], 1)
       IN
        /\ curr \notin visited
        /\ curr \notin goals
        /\ visited' = visited \cup {curr}
        /\ dists' = st.dists
        /\ parent' = st.parent
        /\ counter' = st.counter
        /\ q' = st.q
        /\ hist' = [hist EXCEPT !["dijkstra"] = Append(@, Locals(dists', parent', visited', counter', q'))]
        /\ steps' = [steps EXCEPT !["dijkstra"] = OnStep(@, curr, visited', dists, parent, q \ {e})]
    /\ UNCHANGED <<adjs, source, goals, h, running, returned>>

\* line 64: the heap is empty
DijkstraExhausted ==
    /\ running = "dijkstra"
    /\ q = {}
    /\ returned' = DictSet(returned, "dijkstra", ReturnUnreachable)
    /\ running' = "idle"
    /\ UNCHANGED <<adjs, source, goals, h, dists, parent, visited, counter, q, hist, steps>>

\* -------------------------------------- shortest_path.dijkstra_all_paths
\* Mutant of AllPathsRelax: a node's distance is set only when it is first seen.
RECURSIVE AllPathsRelaxFirstSeen(_, _, _, _)
AllPathsRelaxFirstSeen(st, curr, edges, i) ==
    IF i > Len(edges) THEN st
    ELSE LET adj      == edges[i][1]
             adj_dist == edges[i][2]
             dist     == st.dists[curr] + adj_dist
         IN  IF adj \notin DOMAIN st.dists
             THEN AllPathsRelaxFirstSeen(
                    [dists   |-> DictSet(st.dists, adj, dist),
                     counter |-> st.counter + 1,
                     q       |-> st.q \cup {<<dist, st.counter + 1, adj>>},
                     parent  |-> DictSet(st.parent, adj, curr)],
                    curr, edges, i + 1)
             ELSE AllPathsRelaxFirstSeen(st, curr, edges, i + 1)

\* for adj, adj_dist in adjs(curr): ... (lines 103-109)
RECURSIVE AllPathsRelax(_, _, _, _)
AllPathsRelax(st, curr, edges, i) ==
    IF i > Len(edges) THEN st
    ELSE LET adj      == edges[i][1]
             adj_dist == edges[i][2]
             dist     == st.dists[curr] + adj_dist
         IN  IF dist < DistGet(st.dists, adj)
             THEN AllPathsRelax(
                    [dists   |-> DictSet(st.dists, adj, dist),
                     counter |-> st.counter + 1,
                     q       |-> st.q \cup {<<dist, st.counter + 1, adj>>},
                     parent  |-> DictSet(st.parent, adj, curr)],
                    curr, edges, i + 1)
             ELSE AllPathsRelax(st, curr, edges, i + 1)

\* lines 86-91
AllPathsCall ==
    /\ running = "idle"
    /\ DOMAIN returned = {"dijkstra"}
    /\ running' = "dijkstra_all_paths"
    /\ dists' = [n \in {source} |-> 0]
    /\ parent' = EmptyDict
    /\ visited' = {}
    /\ counter' = 0
    /\ q' = {<<0, 0, source>>}
    /\ UNCHANGED <<adjs, source, goals, h, hist, steps, returned>>

\* lines 93-96: the popped node is already visited
AllPathsStale ==
    /\ running = "dijkstra_all_paths"
    /\ q # {}
    /\ LET e == HeapMin(q) IN
        /\ e[3] \in visited
        /\ q' = q \ {e}
        /\ hist' = [hist EXCEPT !["dijkstra_all_paths"] = Append(@, Locals(dists, parent, visited, counter, q'))]
        /\ UNCHANGED steps
    /\ UNCHANGED <<adjs, source, goals, h, running, dists, parent, visited,
                   counter, returned>>

\* lines 93-109: the popped node is expanded
AllPathsExpand ==
    /\ running = "dijkstra_all_paths"
    /\ q # {}
    /\ LET e == HeapMin(q)
           curr == e[3]
           st == AllPathsRelax([dists |-> dists, counter |-> counter,
                                q |-> q \ {e}, parent |-> parent],
                               curr, adjs[curr], 1)
       IN
        /\ curr \notin visited
        /\ visited' = visited \cup {curr}
        /\ dists' = st.dists
        /\ parent' = st.parent
        /\ counter' = st.counter
        /\ q' = st.q
        /\ hist' = [hist EXCEPT !["dijkstra_all_paths"] = Append(@, Locals(dists', parent', visited', counter', q'))]
        /\ steps' = [steps EXCEPT !["dijkstra_all_paths"] = OnStep(@, curr, visited', dists, parent, q \ {e})]
    /\ UNCHANGED <<adjs, source, goals, h, running, returned>>

\* line 111: the heap is empty
AllPathsExhausted ==
    /\ running = "dijkstra_all_paths"
    /\ q = {}
    /\ returned' = DictSet(returned, "dijkstra_all_paths",
                           [dists |-> dists, parent |-> parent])
    /\ running' = "idle"
    /\ UNCHANGED <<adjs, source, goals, h, dists, parent, visited, counter, q, hist, steps>>

\* -------------------------------------------------- shortest_path.a_star
\* Mutant of AStarRelax: the pushed priority is h(adj) alone.
RECURSIVE AStarRelaxHOnly(_, _, _, _, _)
AStarRelaxHOnly(st, curr, edges, i, hh) ==
    IF i > Len(edges) THEN st
    ELSE LET adj      == edges[i][1]
             adj_dist == edges[i][2]
             dist     == st.dists[curr] + adj_dist
         IN  IF dist < DistGet(st.dists, adj)
             THEN AStarRelaxHOnly(
                    [dists   |-> DictSet(st.dists, adj, dist),
                     counter |-> st.counter + 1,
                     q       |-> st.q \cup {<<hh[adj], st.counter + 1, adj>>},
                     parent  |-> DictSet(st.parent, adj, curr)],
                    curr, edges, i + 1, hh)
             ELSE AStarRelaxHOnly(st, curr, edges, i + 1, hh)

\* for adj, adj_dist in adjs(curr): ... (lines 160-166); hh is the heuristic
RECURSIVE AStarRelax(_, _, _, _, _)
AStarRelax(st, curr, edges, i, hh) ==
    IF i > Len(edges) THEN st
    ELSE LET adj      == edges[i][1]
             adj_dist == edges[i][2]
             dist     == st.dists[curr] + adj_dist
         IN  IF dist < DistGet(st.dists, adj)
             THEN AStarRelax(
                    [dists   |-> DictSet(st.dists, adj, dist),
                     counter |-> st.counter + 1,
                     q       |-> st.q \cup {<<dist + hh[adj], st.counter + 1, adj>>},
                     parent  |-> DictSet(st.parent, adj, curr)],
                    curr, edges, i + 1, hh)
             ELSE AStarRelax(st, curr, edges, i + 1, hh)

\* The enumerated heuristics.
RECURSIVE SumOver(_, _)
SumOver(f, S) ==
    IF S = {} THEN 0
    ELSE LET x == CHOOSE y \in S : TRUE IN f[x] + SumOver(f, S \ {x})

Heuristics == {f \in [Nodes -> 0..MaxTotalH] : SumOver(f, Nodes) <= MaxTotalH}

\* lines 140-145, called with heuristic hh
AStarCall(hh) ==
    /\ running = "idle"
    /\ DOMAIN returned = {"dijkstra"}
    /\ running' = "a_star"
    /\ h' = hh
    /\ dists' = [n \in {source} |-> 0]
    /\ parent' = EmptyDict
    /\ visited' = {}
    /\ counter' = 0
    /\ q' = {<<hh[source], 0, source>>}
    /\ UNCHANGED <<adjs, source, goals, hist, steps, returned>>

\* lines 147-150: the popped node is already visited
AStarStale ==
    /\ running = "a_star"
    /\ q # {}
    /\ LET e == HeapMin(q) IN
        /\ e[3] \in visited
        /\ q' = q \ {e}
        /\ hist' = [hist EXCEPT !["a_star"] = Append(@, Locals(dists, parent, visited, counter, q'))]
        /\ UNCHANGED steps
    /\ UNCHANGED <<adjs, source, goals, h, running, dists, parent, visited,
                   counter, returned>>

\* lines 147-158: the popped node is the goal
AStarGoal ==
    /\ running = "a_star"
    /\ q # {}
    /\ LET e == HeapMin(q)
           curr == e[3]
       IN
        /\ curr \notin visited
        /\ curr \in goals
        /\ WalkEnds(source, curr, parent, Cardinality(Nodes)) # "loop"
        /\ q' = q \ {e}
        /\ visited' = visited \cup {curr}
        /\ hist' = [hist EXCEPT !["a_star"] = Append(@, Locals(dists, parent, visited', counter, q'))]
        /\ steps' = [steps EXCEPT !["a_star"] = OnStep(@, curr, visited', dists, parent, q \ {e})]
        /\ returned' = DictSet(returned, "a_star",
                          ReturnPath(source, curr, parent, dists))
    /\ running' = "idle"
    /\ UNCHANGED <<adjs, source, goals, h, dists, parent, counter>>

\* lines 147-166: the popped node is expanded
AStarExpand ==
    /\ running = "a_star"
    /\ q # {}
    /\ LET e == HeapMin(q)
           curr == e[3]
           st == AStarRelax([dists |-> dists, counter |-> counter,
                             q |-> q \ {e}, parent |-> parent],
                            curr, adjs[curr], 1, h)
       IN
        /\ curr \notin visited
        /\ curr \notin goals
        /\ visited' = visited \cup {curr}
        /\ dists' = st.dists
        /\ parent' = st.parent
        /\ counter' = st.counter
        /\ q' = st.q
        /\ hist' = [hist EXCEPT !["a_star"] = Append(@, Locals(dists', parent', visited', counter', q'))]
        /\ steps' = [steps EXCEPT !["a_star"] = OnStep(@, curr, visited', dists, parent, q \ {e})]
    /\ UNCHANGED <<adjs, source, goals, h, running, returned>>

\* line 168: the heap is empty
AStarExhausted ==
    /\ running = "a_star"
    /\ q = {}
    /\ returned' = DictSet(returned, "a_star", ReturnUnreachable)
    /\ running' = "idle"
    /\ UNCHANGED <<adjs, source, goals, h, dists, parent, visited, counter, q, hist, steps>>

\* --------------------------------------------------- topological.kahn
\* in_degree[k] on a defaultdict(int): a missing key reads as 0
DefaultGet(d, k) == IF k \in DOMAIN d THEN d[k] ELSE 0

\* in_degree[adj] += 1 for the neighbors edges[i..] (lines 34-35)
RECURSIVE CountTargets(_, _, _)
CountTargets(deg, edges, i) ==
    IF i > Len(edges) THEN deg
    ELSE CountTargets(DictSet(deg, edges[i], DefaultGet(deg, edges[i]) + 1), edges, i + 1)

\* for node in nodes: for adj in adjs(node): in_degree[adj] += 1 (lines 33-35)
RECURSIVE KahnInDegree(_, _, _, _)
KahnInDegree(deg, ns, a, i) ==
    IF i > Len(ns) THEN deg
    ELSE KahnInDegree(CountTargets(deg, a[ns[i]], 1), ns, a, i + 1)

\* Mutant of KahnInitialQueue: every node starts in the queue.
RECURSIVE KahnInitialQueueAll(_, _, _, _)
KahnInitialQueueAll(st, ns, i, acc) ==
    IF i > Len(ns) THEN [in_degree |-> st, q |-> acc]
    ELSE KahnInitialQueueAll(DictSet(st, ns[i], DefaultGet(st, ns[i])), ns, i + 1,
                             Append(acc, ns[i]))

\* deque(node for node in nodes if in_degree[node] == 0) (line 37); reading
\* in_degree[node] creates the key
RECURSIVE KahnInitialQueue(_, _, _, _)
KahnInitialQueue(st, ns, i, acc) ==
    IF i > Len(ns) THEN [in_degree |-> st, q |-> acc]
    ELSE KahnInitialQueue(DictSet(st, ns[i], DefaultGet(st, ns[i])), ns, i + 1,
                          IF DefaultGet(st, ns[i]) = 0 THEN Append(acc, ns[i]) ELSE acc)

\* Mutant of KahnRelax: a neighbor is enqueued at every decrement.
RECURSIVE KahnRelaxAlways(_, _, _)
KahnRelaxAlways(st, edges, i) ==
    IF i > Len(edges) THEN st
    ELSE LET adj == edges[i]
             deg == DictSet(st.in_degree, adj, DefaultGet(st.in_degree, adj) - 1)
         IN  KahnRelaxAlways([in_degree |-> deg, q |-> Append(st.q, adj)], edges, i + 1)

\* for adj in adjs(node): ... (lines 45-48), from the i-th neighbor on
RECURSIVE KahnRelax(_, _, _)
KahnRelax(st, edges, i) ==
    IF i > Len(edges) THEN st
    ELSE LET adj == edges[i]
             deg == DictSet(st.in_degree, adj, DefaultGet(st.in_degree, adj) - 1)
         IN  KahnRelax([in_degree |-> deg,
                        q |-> IF deg[adj] = 0 THEN Append(st.q, adj) ELSE st.q],
                       edges, i + 1)

\* Mutant of KahnOnStep: the queue is copied before the node is taken from it.
KahnOnStepBeforePop(log, node, ord, deg, queue) ==
    Append(log, [node |-> node, order |-> ord, in_degree |-> deg,
                 queue |-> <<node>> \o queue])

\* if on_step: on_step(node, order.copy(), dict(in_degree), list(q)) (lines
\* 42-43), log being the calls made before
KahnOnStep(log, node, ord, deg, queue) ==
    Append(log, [node |-> node, order |-> ord, in_degree |-> deg, queue |-> queue])

\* lines 32-37
KahnCall ==
    /\ kahn_pc = "idle"
    /\ LET st == KahnInitialQueue(KahnInDegree(EmptyDict, nodes, kadjs, 1), nodes, 1, <<>>)
       IN  /\ in_degree' = st.in_degree
           /\ kq' = st.q
    /\ order' = <<>>
    /\ ksteps' = <<>>
    /\ kahn_pc' = "loop"
    /\ UNCHANGED <<nodes, kadjs>>

\* lines 38-48: one iteration of while q
KahnStep ==
    /\ kahn_pc = "loop"
    /\ kq # <<>>
    /\ LET node == Head(kq)
           st == KahnRelax([in_degree |-> in_degree, q |-> Tail(kq)], kadjs[node], 1)
       IN  /\ order' = Append(order, node)
           /\ ksteps' = KahnOnStep(ksteps, node, order', in_degree, Tail(kq))
           /\ in_degree' = st.in_degree
           /\ kq' = st.q
    /\ UNCHANGED <<nodes, kadjs, kahn_pc>>

\* line 49: return order
KahnReturn ==
    /\ kahn_pc = "loop"
    /\ kq = <<>>
    /\ kahn_pc' = "done"
    /\ UNCHANGED <<nodes, kadjs, in_degree, order, kq, ksteps>>

\* ------------------------------------------------- union_find.UnionFind
\* UnionFind.find (lines 20-32) on the object st = [parent, rank]: the object
\* after the call and the value returned.
RECURSIVE UFFind(_, _)
UFFind(st, x) ==
    LET s1 == IF x \notin DOMAIN st.parent
              THEN [parent |-> DictSet(st.parent, x, x), rank |-> DictSet(st.rank, x, 0)]
              ELSE st
    IN  IF s1.parent[x] # x
        THEN LET r  == UFFind(s1, s1.parent[x])
                 s2 == [parent |-> DictSet(r.parent, x, r.ret), rank |-> r.rank]
             IN  [parent |-> s2.parent, rank |-> s2.rank, ret |-> s2.parent[x]]
        ELSE [parent |-> s1.parent, rank |-> s1.rank, ret |-> s1.parent[x]]

\* Mutant of UFUnion: y's element, not its root, is attached under x's root.
UFUnionNoSecondFind(st, x, y) ==
    LET f1 == UFFind(st, x)
        f2 == UFFind([parent |-> f1.parent, rank |-> f1.rank], y)
    IN  IF f1.ret = f2.ret
        THEN [parent |-> f2.parent, rank |-> f2.rank, ret |-> FALSE]
        ELSE [parent |-> DictSet(f2.parent, y, f1.ret), rank |-> f2.rank, ret |-> TRUE]

\* Mutant of UFUnion: the ranks are not compared, y's root goes under x's.
UFUnionNoSwap(st, x, y) ==
    LET f1 == UFFind(st, x)
        f2 == UFFind([parent |-> f1.parent, rank |-> f1.rank], y)
        par   == DictSet(f2.parent, f2.ret, f1.ret)
    IN  IF f1.ret = f2.ret
        THEN [parent |-> f2.parent, rank |-> f2.rank, ret |-> FALSE]
        ELSE [parent |-> par,
              rank   |-> IF f2.rank[f1.ret] = f2.rank[f2.ret]
                         THEN DictSet(f2.rank, f1.ret, f2.rank[f1.ret] + 1)
                         ELSE f2.rank,
              ret    |-> TRUE]

\* UnionFind.union (lines 34-53)
UFUnion(st, x, y) ==
    LET f1 == UFFind(st, x)
        f2 == UFFind([parent |-> f1.parent, rank |-> f1.rank], y)
        swap  == f2.rank[f1.ret] < f2.rank[f2.ret]
        root1 == IF swap THEN f2.ret ELSE f1.ret
        root2 == IF swap THEN f1.ret ELSE f2.ret
        par   == DictSet(f2.parent, root2, root1)
    IN  IF f1.ret = f2.ret
        THEN [parent |-> f2.parent, rank |-> f2.rank, ret |-> FALSE]
        ELSE [parent |-> par,
              rank   |-> IF f2.rank[root1] = f2.rank[root2]
                         THEN DictSet(f2.rank, root1, f2.rank[root1] + 1)
                         ELSE f2.rank,
              ret    |-> TRUE]

\* The elements the calls are made with.
NumElems == 4
Elems == 1..NumElems

\* The groups after a union call on x and y.
Merge(gs, x, y) ==
    LET hit == {g \in gs : x \in g \/ y \in g}
    IN  (gs \ hit) \cup {UNION hit \cup {x, y}}

\* a call find(x)
Find(x) ==
    /\ LET r == UFFind([parent |-> uf_parent, rank |-> rank], x)
       IN  /\ uf_parent' = r.parent
           /\ rank' = r.rank
           /\ last_find' = [x |-> x, ret |-> r.ret]
    /\ UNCHANGED groups

\* a call union(x, y)
Union(x, y) ==
    /\ LET r == UFUnion([parent |-> uf_parent, rank |-> rank], x, y)
       IN  /\ uf_parent' = r.parent
           /\ rank' = r.rank
    /\ groups' = Merge(groups, x, y)
    /\ last_find' = NoFind

InitUF ==
    /\ UFEmpty
    /\ SPIdle
    /\ KahnIdle
    /\ GraphIdle
    /\ KruskalIdle

NextUF ==
    \/ \E x \in Elems : Find(x) /\ UNCHANGED <<spVars, kahnVars, graphVars, kruskalVars>>
    \/ \E x, y \in Elems : Union(x, y) /\ UNCHANGED <<spVars, kahnVars, graphVars, kruskalVars>>

SpecUF == InitUF /\ [][NextUF]_vars

\* ------------------------------------------- graph.DirectedGraph, Graph
\* The operations on the value g of self.adjs; those that return a value give
\* the record [g, ret].

\* if node not in self.adjs: self.adjs[node] = {} (lines 23-24)
EnsureNode(g, n) == IF n \in DOMAIN g THEN g ELSE DictSet(g, n, EmptyDict)

\* DirectedGraph.add_edge (lines 21-25)
DGAddEdge(g, src, dst, weight) ==
    LET g2 == EnsureNode(EnsureNode(g, src), dst)
    IN  DictSet(g2, src, DictSet(g2[src], dst, weight))

\* d.pop(k) / d.pop(k, None) on a dict
DictPop(d, k) == [x \in (DOMAIN d) \ {k} |-> d[x]]

\* DirectedGraph.remove_edge (lines 27-31)
DGRemoveEdge(g, src, dst) ==
    IF src \notin DOMAIN g \/ dst \notin DOMAIN g[src]
    THEN [g |-> g, ret |-> FALSE]
    ELSE [g |-> DictSet(g, src, DictPop(g[src], dst)), ret |-> TRUE]

\* DirectedGraph.add_node (lines 33-37)
DGAddNode(g, n) ==
    IF n \in DOMAIN g THEN [g |-> g, ret |-> FALSE]
    ELSE [g |-> DictSet(g, n, EmptyDict), ret |-> TRUE]

\* Mutant of DGRemoveNode: the node is dropped, the edges into it are kept.
DGRemoveNodeKeepIncoming(g, n) ==
    IF n \notin DOMAIN g THEN [g |-> g, ret |-> FALSE]
    ELSE [g |-> DictPop(g, n), ret |-> TRUE]

\* DirectedGraph.remove_node (lines 39-45)
DGRemoveNode(g, n) ==
    IF n \notin DOMAIN g THEN [g |-> g, ret |-> FALSE]
    ELSE [g |-> DictPop([other \in DOMAIN g |-> DictPop(g[other], n)], n), ret |-> TRUE]

\* DirectedGraph.has_edge (lines 64-65)
HasEdge(g, src, dst) == src \in DOMAIN g /\ dst \in DOMAIN g[src]

\* DirectedGraph.get_weight (lines 67-70); None is the empty set, a weight w
\* is {w}
GetWeight(g, src, dst) == IF HasEdge(g, src, dst) THEN {g[src][dst]} ELSE {}

\* DirectedGraph.get_adjs (lines 50-51): the items of self.adjs[node],
\* ascending by neighbor, or KeyError raised by self.adjs[node]
GetAdjs(g, n) ==
    IF n \notin DOMAIN g THEN [raised |-> "KeyError", ret |-> <<>>]
    ELSE [raised |-> "",
          ret |-> LET ks == Ascending(DOMAIN g[n])
                  IN  [i \in 1..Len(ks) |-> <<ks[i], g[n][ks[i]]>>]]

\* DirectedGraph.out_degree (lines 79-80)
OutDegree(g, n) == IF n \in DOMAIN g THEN Cardinality(DOMAIN g[n]) ELSE 0

\* DirectedGraph.num_edges (lines 82-83)
DGNumEdges(g) == SumOver([src \in DOMAIN g |-> Cardinality(DOMAIN g[src])], DOMAIN g)

\* Graph.num_edges (lines 99-100)
GNumEdges(g) == DGNumEdges(g) \div 2

\* Mutant of GAddEdge: the reverse edge is not stored.
GAddEdgeOneWay(g, src, dst, weight) == DGAddEdge(g, src, dst, weight)

\* Graph.add_edge (lines 87-89)
GAddEdge(g, src, dst, weight) ==
    DGAddEdge(DGAddEdge(g, src, dst, weight), dst, src, weight)

\* Graph.remove_edge (lines 91-94)
GRemoveEdge(g, src, dst) ==
    LET a == DGRemoveEdge(g, src, dst)
        b == DGRemoveEdge(a.g, dst, src)
    IN  [g |-> b.g, ret |-> a.ret \/ b.ret]

\* self.add_edge as the object's class resolves it
AddEdgeOf(c, g, src, dst, weight) ==
    IF c = "Graph" THEN GAddEdge(g, src, dst, weight) ELSE DGAddEdge(g, src, dst, weight)

\* for src, dst, weight in edges: self.add_edge(src, dst, weight) (lines
\* 17-19), es being the triples in the order the set yields them
RECURSIVE InitEdges(_, _, _, _)
InitEdges(c, g, es, i) ==
    IF i > Len(es) THEN g
    ELSE InitEdges(c, AddEdgeOf(c, g, es[i][1], es[i][2], es[i][3]), es, i + 1)

\* DirectedGraph.__init__ (lines 8-19)
NewGraph(c, ns, es) == InitEdges(c, [n \in ns |-> EmptyDict], es, 1)

\* The nodes and weights the calls are made with.
GNodes == {1, 2, 3}
\* The weights of the calls are 1..MaxGW.
MaxGW == 2
\* The edge set a graph is constructed from has at most MaxInitEdges triples.
MaxInitEdges == 2

GTriples == GNodes \X GNodes \X (1..MaxGW)

\* The sequences of at most MaxInitEdges distinct triples.
InitEdgeSeqs ==
    {es \in UNION {[1..k -> GTriples] : k \in 0..MaxInitEdges} :
        \A i, j \in 1..Len(es) : i # j => es[i] # es[j]}

add_edge(src, dst, weight) ==
    /\ graph' = AddEdgeOf(cls, graph, src, dst, weight)
    /\ last_removed' = NoRemove
    /\ UNCHANGED cls

remove_edge(src, dst) ==
    /\ graph' = (IF cls = "Graph" THEN GRemoveEdge(graph, src, dst)
                 ELSE DGRemoveEdge(graph, src, dst)).g
    /\ last_removed' = NoRemove
    /\ UNCHANGED cls

add_node(n) ==
    /\ graph' = DGAddNode(graph, n).g
    /\ last_removed' = NoRemove
    /\ UNCHANGED cls

remove_node(n) ==
    /\ graph' = DGRemoveNode(graph, n).g
    /\ last_removed' = [n |-> n, ret |-> DGRemoveNode(graph, n).ret]
    /\ UNCHANGED cls

InitGraph ==
    /\ cls \in {"DirectedGraph", "Graph"}
    /\ \E ns \in SUBSET GNodes : \E es \in InitEdgeSeqs : graph = NewGraph(cls, ns, es)
    /\ last_removed = NoRemove
    /\ SPIdle
    /\ KahnIdle
    /\ UFEmpty
    /\ KruskalIdle

NextGraph ==
    \/ \E src, dst \in GNodes : \E weight \in 1..MaxGW :
          add_edge(src, dst, weight) /\ UNCHANGED <<spVars, kahnVars, ufVars, kruskalVars>>
    \/ \E src, dst \in GNodes :
          remove_edge(src, dst) /\ UNCHANGED <<spVars, kahnVars, ufVars, kruskalVars>>
    \/ \E n \in GNodes :
          add_node(n) /\ UNCHANGED <<spVars, kahnVars, ufVars, kruskalVars>>
    \/ \E n \in GNodes :
          remove_node(n) /\ UNCHANGED <<spVars, kahnVars, ufVars, kruskalVars>>

SpecGraph == InitGraph /\ [][NextGraph]_vars

\* ---------------------------------------- minimum_spanning_tree.kruskal
\* DirectedGraph.get_edges (lines 53-56): the triples of g, the sources in
\* the order srcs and a source's neighbors ascending, or descending if down
\* (a dict yields its keys in the order they were inserted).
RECURSIVE GetEdges(_, _, _, _)
GetEdges(g, srcs, down, i) ==
    IF i > Len(srcs) THEN <<>>
    ELSE LET src  == srcs[i]
             dsts == IF down THEN Reverse(Ascending(DOMAIN g[src]))
                     ELSE Ascending(DOMAIN g[src])
         IN  [k \in 1..Len(dsts) |-> <<src, dsts[k], g[src][dsts[k]]>>]
                \o GetEdges(g, srcs, down, i + 1)

\* The sequence s with e inserted behind the last element whose weight is at
\* most e's.
RECURSIVE InsertByWeight(_, _)
InsertByWeight(s, e) ==
    IF s = <<>> THEN <<e>>
    ELSE IF s[Len(s)][3] <= e[3] THEN Append(s, e)
    ELSE Append(InsertByWeight(SubSeq(s, 1, Len(s) - 1), e), s[Len(s)])

\* Mutant of SortByWeight: the edges are taken in the order get_edges yields.
SortByWeightNot(es) == es

\* sorted(graph.get_edges(), key=lambda e: e[2]) (line 14): a stable sort
RECURSIVE SortByWeight(_)
SortByWeight(es) ==
    IF es = <<>> THEN <<>>
    ELSE InsertByWeight(SortByWeight(SubSeq(es, 1, Len(es) - 1)), es[Len(es)])

\* for src, dst, weight in ...: if uf.union(src, dst): mst.add_edge(...)
\* (lines 14-16), from the i-th triple on
RECURSIVE KruskalLoop(_, _, _, _)
KruskalLoop(uf, m, es, i) ==
    IF i > Len(es) THEN m
    ELSE LET r == UFUnion(uf, es[i][1], es[i][2])
         IN  KruskalLoop([parent |-> r.parent, rank |-> r.rank],
                         IF r.ret THEN DGAddEdge(m, es[i][1], es[i][2], es[i][3]) ELSE m,
                         es, i + 1)

\* kruskal (lines 9-17), es being what graph.get_edges() yields
kruskal(es) ==
    KruskalLoop([parent |-> EmptyDict, rank |-> EmptyDict], EmptyDict, SortByWeight(es), 1)

\* The call kruskal(graph)
KruskalRun ==
    /\ kruskal_pc = "idle"
    /\ mst' = kruskal(edges_iter)
    /\ kruskal_pc' = "done"
    /\ UNCHANGED <<edges_iter, graphVars>>

\* The graphs given to kruskal: Graph objects on KrNodes whose edges have
\* weights 1..MaxKruskalW.
MaxKruskalW == 2

KrNodes == {1, 2, 3, 4}

\* The pairs that may carry an edge: every two nodes, and node 1 with itself.
KrPairs == {e \in KrNodes \X KrNodes : e[1] < e[2] \/ e = <<1, 1>>}

\* Graph(nodes = KrNodes, edges = the pairs with wt > 0)
KruskalInput(wt) ==
    NewGraph("Graph", KrNodes,
             LET present == Ascending({e[1] * 10 + e[2] : e \in {d \in KrPairs : wt[d] > 0}})
             IN  [k \in 1..Len(present) |->
                    <<present[k] \div 10, present[k] % 10,
                      wt[<<present[k] \div 10, present[k] % 10>>]>>])

InitKruskal ==
    /\ cls = "Graph"
    /\ \E wt \in [KrPairs -> 0..MaxKruskalW] : graph = KruskalInput(wt)
    /\ \E srcs \in {Ascending(KrNodes), Reverse(Ascending(KrNodes))} :
          \E down \in BOOLEAN : edges_iter = GetEdges(graph, srcs, down, 1)
    /\ last_removed = NoRemove
    /\ kruskal_pc = "idle"
    /\ mst = EmptyDict
    /\ SPIdle
    /\ KahnIdle
    /\ UFEmpty

NextKruskal ==
    \/ KruskalRun /\ UNCHANGED <<spVars, kahnVars, ufVars>>

SpecKruskal == InitKruskal /\ [][NextKruskal]_vars

\* ------------------------------------------------------------ the inputs
\* The enumerated graphs: every node's candidate neighbors, in the order adjs
\* yields them; each candidate edge is absent (-1) or has a weight >= 0.
Template == [n \in Nodes |->
               CASE n = 1 -> <<3, 2>>
                 [] n = 2 -> <<3, 4>>
                 [] n = 3 -> <<4, 1>>
                 [] n = 4 -> <<>>]

CandEdges == UNION {{<<n, Template[n][i]>> : i \in 1..Len(Template[n])} : n \in Nodes}

RECURSIVE PresentEdges(_, _, _)
PresentEdges(n, wt, i) ==
    IF i > Len(Template[n]) THEN <<>>
    ELSE LET m == Template[n][i]
             rest == PresentEdges(n, wt, i + 1)
         IN  IF wt[<<n, m>>] < 0 THEN rest ELSE <<<<m, wt[<<n, m>>]>>>> \o rest

TotalW(wt) == SumOver([e \in CandEdges |-> IF wt[e] < 0 THEN 0 ELSE wt[e]], CandEdges)

\* The nodes a path of the graph leads to from n (n included).
RECURSIVE ReachFrom(_, _)
ReachFrom(a, S) ==
    LET T == S \cup UNION {{a[n][i][1] : i \in 1..Len(a[n])} : n \in S}
    IN  IF T = S THEN S ELSE ReachFrom(a, T)

Reachable(n) == ReachFrom(adjs, {n})

\* adjs is only ever called on nodes reachable from source: the enumeration
\* gives the other nodes no edges.
InitSP ==
    /\ KahnIdle
    /\ UFEmpty
    /\ GraphIdle
    /\ KruskalIdle
    /\ source \in Nodes
    /\ \E wt \in [CandEdges -> -1..MaxTotalW] :
          /\ TotalW(wt) <= MaxTotalW
          /\ adjs = [n \in Nodes |-> PresentEdges(n, wt, 1)]
    /\ \A n \in Nodes : n \notin Reachable(source) => adjs[n] = <<>>
    /\ goals \in SUBSET Nodes
    /\ h = [n \in Nodes |-> 0]
    /\ running = "idle"
    /\ dists = EmptyDict
    /\ parent = EmptyDict
    /\ visited = {}
    /\ counter = 0
    /\ q = {}
    /\ hist = [f \in Functions |-> <<>>]
    /\ steps = [f \in Functions |-> <<>>]
    /\ returned = EmptyDict

\* The calls of one run: dijkstra, then dijkstra_all_paths or a_star on the
\* same source, goal predicate and graph.
NextSP ==
    \/ DijkstraCall /\ UNCHANGED <<kahnVars, ufVars, graphVars, kruskalVars>>
    \/ DijkstraStale /\ UNCHANGED <<kahnVars, ufVars, graphVars, kruskalVars>>
    \/ DijkstraGoal /\ UNCHANGED <<kahnVars, ufVars, graphVars, kruskalVars>>
    \/ DijkstraExpand /\ UNCHANGED <<kahnVars, ufVars, graphVars, kruskalVars>>
    \/ DijkstraExhausted /\ UNCHANGED <<kahnVars, ufVars, graphVars, kruskalVars>>
    \/ AllPathsCall /\ UNCHANGED <<kahnVars, ufVars, graphVars, kruskalVars>>
    \/ AllPathsStale /\ UNCHANGED <<kahnVars, ufVars, graphVars, kruskalVars>>
    \/ AllPathsExpand /\ UNCHANGED <<kahnVars, ufVars, graphVars, kruskalVars>>
    \/ AllPathsExhausted /\ UNCHANGED <<kahnVars, ufVars, graphVars, kruskalVars>>
    \/ \E hh \in Heuristics : AStarCall(hh) /\ UNCHANGED <<kahnVars, ufVars, graphVars, kruskalVars>>
    \/ AStarStale /\ UNCHANGED <<kahnVars, ufVars, graphVars, kruskalVars>>
    \/ AStarGoal /\ UNCHANGED <<kahnVars, ufVars, graphVars, kruskalVars>>
    \/ AStarExpand /\ UNCHANGED <<kahnVars, ufVars, graphVars, kruskalVars>>
    \/ AStarExhausted /\ UNCHANGED <<kahnVars, ufVars, graphVars, kruskalVars>>

SpecSP == InitSP /\ [][NextSP]_vars

\* A step of the loop of the running function.
LoopStep == running # "idle" /\ NextSP

\* The interpreter keeps executing a call that was made: the loop of the
\* running function takes its next step whenever it has one.
\* The inputs of the calls followed to their return: the graphs of InitSP seen
\* from node 1, with no goal node or one of the goal nodes 3 and 4.
InitSPFair ==
    /\ InitSP
    /\ source = 1
    /\ goals \in {{}, {3}, {4}}

SpecSPFair == InitSPFair /\ [][NextSP]_vars /\ WF_vars(LoopStep)


\* ------------------------------------------------- claims: shortest paths
Min(S) == CHOOSE x \in S : \A y \in S : x <= y

\* The minimum total weight over the simple paths that start at n, avoid the
\* nodes of seen and end at a node of goals; Inf when there is none.
RECURSIVE SimplePathMin(_, _)
SimplePathMin(n, seen) ==
    LET nexts == {i \in 1..Len(adjs[n]) : adjs[n][i][1] \notin seen \cup {n}}
        conts == {adjs[n][i][2] + SimplePathMin(adjs[n][i][1], seen \cup {n}) : i \in nexts}
        ends  == conts \cup (IF n \in goals THEN {0} ELSE {})
        fin   == {c \in ends : c < Inf}
    IN  IF fin = {} THEN Inf ELSE Min(fin)

GoalReachable == goals \cap Reachable(source) # {}

ZeroH == [n \in Nodes |-> 0]

\* h never overestimates the remaining distance to the goal.
Admissible(hh) == \A n \in Nodes : 0 <= hh[n] /\ hh[n] <= SimplePathMin(n, {})

\* C1: when a goal node is reachable from source, the distance dijkstra returns
\* is the minimum total weight over all simple paths from source to a goal node.
C1_DijkstraDistanceIsMinimum ==
    ("dijkstra" \in DOMAIN returned /\ GoalReachable) =>
        /\ ~returned["dijkstra"].raised
        /\ returned["dijkstra"].dist = SimplePathMin(source, {})

\* dijkstra returned a path of at least two edges although an edge leads from
\* source straight to the goal it found, at a higher weight.
C1_Witness ==
    /\ "dijkstra" \in DOMAIN returned
    /\ LET r == returned["dijkstra"] IN
        /\ Len(r.path) >= 3
        /\ \E i \in 1..Len(adjs[source]) :
              /\ adjs[source][i][1] = r.path[Len(r.path)]
              /\ adjs[source][i][2] > r.dist

\* C2: with an admissible heuristic (consistent or not), the distance a_star
\* returns is not greater than the distance dijkstra returns on the same input.
C2_AStarNotLongerThanDijkstra ==
    ("a_star" \in DOMAIN returned /\ Admissible(h)) =>
        returned["a_star"].dist <= returned["dijkstra"].dist

\* C3: with h = 0 everywhere, a_star goes through the same locals as dijkstra,
\* iteration by iteration, and returns the same (path, distance).
C3_AStarZeroIsDijkstra ==
    (h = ZeroH /\ (running = "a_star" \/ "a_star" \in DOMAIN returned)) =>
        /\ Len(hist["a_star"]) <= Len(hist["dijkstra"])
        /\ \A k \in 1..Len(hist["a_star"]) : hist["a_star"][k] = hist["dijkstra"][k]
        /\ "a_star" \in DOMAIN returned =>
              /\ returned["a_star"] = returned["dijkstra"]
              /\ hist["a_star"] = hist["dijkstra"]

\* a_star with h = 0 returned a path of at least two edges after popping a
\* stale entry.
C3_Witness ==
    /\ "a_star" \in DOMAIN returned
    /\ h = ZeroH
    /\ Len(returned["a_star"].path) >= 3
    /\ \E k \in 2..Len(hist["a_star"]) :
          hist["a_star"][k].visited = hist["a_star"][k - 1].visited

\* C4: the distance map dijkstra_all_paths returns has an entry for exactly the
\* nodes reachable from source, and for a reachable node n the entry equals the
\* distance dijkstra returns for the goal n.
C4_AllPathsMatchesDijkstra ==
    "dijkstra_all_paths" \in DOMAIN returned =>
        /\ DOMAIN returned["dijkstra_all_paths"].dists = Reachable(source)
        /\ \A n \in Reachable(source) :
              goals = {n} =>
                 returned["dijkstra_all_paths"].dists[n] = returned["dijkstra"].dist

\* dijkstra_all_paths returned a map over all four nodes in which the single
\* goal is at distance 2.
C4_Witness ==
    /\ "dijkstra_all_paths" \in DOMAIN returned
    /\ DOMAIN returned["dijkstra_all_paths"].dists = Nodes
    /\ \E n \in Nodes :
          /\ goals = {n}
          /\ returned["dijkstra_all_paths"].dists[n] = 2

\* C9: dijkstra and a_star return (empty path, +infinity), without raising,
\* exactly when no node reachable from source satisfies is_goal; otherwise
\* they return a non-empty path and a finite distance.
C9_UnreachableIsNormalReturn ==
    \A f \in {"dijkstra", "a_star"} :
        f \in DOMAIN returned =>
            /\ ~returned[f].raised
            /\ IF GoalReachable
               THEN returned[f].path # <<>> /\ returned[f].dist < Inf
               ELSE returned[f].path = <<>> /\ returned[f].dist = Inf

\* a_star returned (empty path, +infinity) for a goal outside the three nodes
\* it visited.
C9_Witness ==
    /\ "a_star" \in DOMAIN returned
    /\ returned["a_star"] = ReturnUnreachable
    /\ goals # {}
    /\ Cardinality(visited) = 3


\* ------------------------------------- claims: the on_step calls (C14)
\* What a step of the loop of f adds to the on_step calls of f.
C14_Step ==
    \A f \in Functions :
        running = f =>
            LET n == Len(steps[f]) IN
            /\ Len(steps'[f]) = n + Cardinality(visited' \ visited)
            /\ SubSeq(steps'[f], 1, n) = steps[f]
            /\ Len(steps'[f]) = n + 1 =>
                  LET c == steps'[f][n + 1] IN
                    /\ c.curr = HeapMin(q)[3]
                    /\ c.curr \notin visited
                    /\ c.visited = visited \cup {c.curr}
                    /\ c.dists = dists
                    /\ c.parent = parent
                    /\ c.queue_view = QueueView(q \ {HeapMin(q)})
            /\ (f \notin DOMAIN returned /\ f \in DOMAIN returned' /\ q # {}) =>
                  /\ Len(steps'[f]) = n + 1
                  /\ steps'[f][n + 1].curr \in goals

\* The on_step calls of f were made for pairwise distinct nodes, one per
\* iteration that marked a node visited, in that order.
C14_Log ==
    \A f \in Functions :
        /\ \A i, j \in 1..Len(steps[f]) : i # j => steps[f][i].curr # steps[f][j].curr
        /\ \A i \in 1..Len(steps[f]) :
              steps[f][i].visited = {steps[f][j].curr : j \in 1..i}
        /\ Len(steps[f]) =
              Cardinality({k \in 1..Len(hist[f]) :
                             hist[f][k].visited #
                                 (IF k = 1 THEN {} ELSE hist[f][k - 1].visited)})

\* C14: on_step is called exactly once for each node that is extracted and
\* marked visited and never for a stale entry, in extraction order; at the call
\* the node is the newest member of visited and dists, parent and the frontier
\* view are those before any of its outgoing edges is relaxed; for a node that
\* satisfies is_goal the call is made before the function returns.
C14_OnStepOncePerVisitedNode == [](C14_Log) /\ [][C14_Step]_vars

\* a_star returned a path after at least three on_step calls and a stale pop,
\* and the last call was made with a frontier view that was not empty.
C14_Witness ==
    /\ "a_star" \in DOMAIN returned
    /\ returned["a_star"].path # <<>>
    /\ Len(steps["a_star"]) >= 3
    /\ Len(hist["a_star"]) > Len(steps["a_star"])
    /\ DOMAIN steps["a_star"][Len(steps["a_star"])].queue_view # {}


\* --------------------------------- claims: finalized distances (C15)
\* The minimum total weight over the simple paths from n to t that avoid the
\* nodes of seen; Inf when there is none.
RECURSIVE PathMinTo(_, _, _)
PathMinTo(n, t, seen) ==
    IF n = t THEN 0
    ELSE LET nexts == {i \in 1..Len(adjs[n]) : adjs[n][i][1] \notin seen \cup {n}}
             conts == {adjs[n][i][2] + PathMinTo(adjs[n][i][1], t, seen \cup {n}) : i \in nexts}
             fin   == {c \in conts : c < Inf}
         IN  IF fin = {} THEN Inf ELSE Min(fin)

\* The entry of n in the dict d, or the empty set when it has none.
Entry(d, n) == IF n \in DOMAIN d THEN {d[n]} ELSE {}

\* A step of the loop of f adds a node to visited only with its true shortest
\* distance in dists, and changes no dists or parent entry of a visited node.
VisitedIsFinalStep(f) ==
    running = f =>
        /\ \A n \in visited' \ visited : dists[n] = PathMinTo(source, n, {})
        /\ \A n \in visited' :
              /\ Entry(dists', n) = Entry(dists, n)
              /\ Entry(parent', n) = Entry(parent, n)

\* C15: in dijkstra, dijkstra_all_paths and a_star (for a_star with an
\* admissible heuristic) a node is added to visited with its true shortest
\* distance in dists, and its dists and parent entries are not modified for the
\* rest of the run.
C15_VisitedIsFinalized ==
    [][/\ VisitedIsFinalStep("dijkstra")
       /\ VisitedIsFinalStep("dijkstra_all_paths")
       /\ Admissible(h) => VisitedIsFinalStep("a_star")]_vars

\* The same for dijkstra and dijkstra_all_paths alone.
DijkstraVisitedIsFinalized ==
    [][VisitedIsFinalStep("dijkstra") /\ VisitedIsFinalStep("dijkstra_all_paths")]_vars


\* ----------------------------------------- claims: the frontier (C16)
\* The sequence numbers of the frontier are pairwise distinct and none is
\* greater than counter.
FrontierCountersDistinct ==
    /\ \A a, b \in q : a # b => a[2] # b[2]
    /\ \A a \in q : a[2] <= counter

\* A step of a running function pushes entries numbered counter + 1 ..
\* counter', removes at most one entry, and the entry removed has the least
\* priority and, among the entries of that priority, the least number.
FrontierStep ==
    running # "idle" =>
        /\ {e[2] : e \in q' \ q} = (counter + 1)..counter'
        /\ Cardinality(q' \ q) = counter' - counter
        /\ Cardinality(q \ q') <= 1
        /\ \A e \in q \ q' :
              \A o \in q \ {e} : e[1] < o[1] \/ (e[1] = o[1] /\ e[2] < o[2])

\* C16: the sequence numbers of the entries pushed are pairwise distinct and
\* increase in push order, entries leave the frontier only by minimum
\* extraction, and among entries of equal priority the one pushed first is
\* extracted first.
C16_FrontierIsFirstInFirstOutOnTies == [](FrontierCountersDistinct) /\ [][FrontierStep]_vars

\* a_star has just extracted the earlier pushed of two entries for different
\* nodes that had the same, least priority.
C16_Witness ==
    /\ running = "a_star"
    /\ \E k \in 2..Len(hist["a_star"]) :
          /\ k = Len(hist["a_star"])
          /\ \E a, b \in hist["a_star"][k - 1].q :
                /\ a[1] = b[1] /\ a[2] < b[2] /\ a[3] # b[3]
                /\ \A o \in hist["a_star"][k - 1].q : a[1] <= o[1]
                /\ a \notin q
                /\ b \in q


\* ------------------------------------ claims: the returned path (C19)
\* The weight adjs yields for the edge from a to b.
EdgeWeight(a, b) ==
    LET i == CHOOSE k \in 1..Len(adjs[a]) : adjs[a][k][1] = b IN adjs[a][i][2]

IsEdge(a, b) == \E k \in 1..Len(adjs[a]) : adjs[a][k][1] = b

\* The non-empty path f returned starts at source, ends at the goal node f
\* extracted last, repeats no node, follows edges of the graph, and the weights
\* of these edges add up to the distance returned.
ReturnedPathIsConsistent(f) ==
    (f \in DOMAIN returned /\ returned[f].path # <<>>) =>
        LET path == returned[f].path
            n    == Len(path)
        IN  /\ path[1] = source
            /\ path[n] \in goals
            /\ path[n] = steps[f][Len(steps[f])].curr
            /\ \A i, j \in 1..n : i # j => path[i] # path[j]
            /\ \A i \in 1..(n - 1) : IsEdge(path[i], path[i + 1])
            /\ (\A i \in 1..(n - 1) : IsEdge(path[i], path[i + 1])) =>
                  SumOver([i \in 1..(n - 1) |-> EdgeWeight(path[i], path[i + 1])],
                          1..(n - 1)) = returned[f].dist

\* C19: a non-empty path returned by dijkstra, or by a_star with an admissible
\* heuristic, starts at source, ends at the extracted goal node, repeats no
\* node, follows edges of the graph, and its edge weights add up to the
\* returned distance.
C19_ReturnedPathWeighsReturnedDistance ==
    /\ ReturnedPathIsConsistent("dijkstra")
    /\ Admissible(h) => ReturnedPathIsConsistent("a_star")

\* The same for dijkstra alone.
DijkstraReturnedPathIsConsistent == ReturnedPathIsConsistent("dijkstra")


\* ------------------------------------------- claims: termination (C20)
\* A step of a running function adds at most one node to visited, each node
\* at most once, and pushes one frontier entry per dists entry it lowers.
ExpandOnceStep ==
    running # "idle" =>
        /\ Cardinality(visited' \ visited) <= 1
        /\ visited \subseteq visited'
        /\ Cardinality(q' \ q) =
              Cardinality({n \in Nodes : Entry(dists', n) # Entry(dists, n)})
        /\ q = {} => q' = {} /\ visited' = visited
        /\ q # {} =>
              /\ visited' # visited => HeapMin(q)[3] \notin visited
              /\ Cardinality(q' \ q) <= Len(adjs[HeapMin(q)[3]])

\* When dijkstra or a_star is about to extract an unvisited goal node, the
\* parent links from it reach source without cycling.
GoalWalkReachesSource ==
    (running \in {"dijkstra", "a_star"} /\ q # {}) =>
        LET curr == HeapMin(q)[3] IN
          (curr \notin visited /\ curr \in goals) =>
              WalkEnds(source, curr, parent, Cardinality(Nodes)) = "ok"

\* C20: every call of dijkstra, dijkstra_all_paths and a_star eventually
\* stops running, and it stops by returning; each node is expanded at most once, one frontier entry is pushed
\* per relaxation, and the path reconstruction at the goal reaches source.
C20_ShortestPathCallsReturn ==
    /\ (running # "idle") ~> (running = "idle")
    /\ [][running # "idle" /\ running' = "idle" => running \in DOMAIN returned']_vars
    /\ [](GoalWalkReachesSource)
    /\ [][ExpandOnceStep]_vars

\* a_star returned a path over all four nodes on a graph with a cycle through
\* source and an edge of weight 0, after more loop iterations than nodes.
C20_Witness ==
    /\ "a_star" \in DOMAIN returned
    /\ running = "idle"
    /\ Len(returned["a_star"].path) = 4
    /\ source \in Reachable(source) \ {source}
          \/ \E i \in 1..Len(adjs[source]) : source \in ReachFrom(adjs, {adjs[source][i][1]})
    /\ \E n \in Nodes : \E i \in 1..Len(adjs[n]) : adjs[n][i][2] = 0
    /\ Len(hist["a_star"]) > Cardinality(Nodes)


\* ------------------------------------------------------ kahn: the inputs
\* The edges of an enumerated graph are at most MaxKahnEdges pairs of KNodes.
MaxKahnEdges == 4

KNodes == {1, 2, 3, 4}

\* The inputs: nodes is all of KNodes or leaves 4 out, iterated in ascending or
\* descending order; adjs yields a node's neighbors in ascending or in
\* descending order.
InitKahn ==
    /\ \E S \in {KNodes, KNodes \ {4}} : \E down \in BOOLEAN :
          nodes = IF down THEN Reverse(Ascending(S)) ELSE Ascending(S)
    /\ \E E \in SUBSET (KNodes \X KNodes) : \E down \in BOOLEAN :
          /\ Cardinality(E) <= MaxKahnEdges
          /\ kadjs = [n \in KNodes |->
                        LET out == Ascending({m \in KNodes : <<n, m>> \in E})
                        IN  IF down THEN Reverse(out) ELSE out]
    /\ kahn_pc = "idle"
    /\ in_degree = EmptyDict
    /\ order = <<>>
    /\ kq = <<>>
    /\ ksteps = <<>>
    /\ SPIdle
    /\ UFEmpty
    /\ GraphIdle
    /\ KruskalIdle

NextKahn ==
    \/ KahnCall /\ UNCHANGED <<spVars, ufVars, graphVars, kruskalVars>>
    \/ KahnStep /\ UNCHANGED <<spVars, ufVars, graphVars, kruskalVars>>
    \/ KahnReturn /\ UNCHANGED <<spVars, ufVars, graphVars, kruskalVars>>

SpecKahn == InitKahn /\ [][NextKahn]_vars


\* ------------------------------------------------------- claims: kahn
Range(s) == {s[i] : i \in 1..Len(s)}

NodeSet == Range(nodes)

\* The edges of the graph: the pairs (u, v) with u in nodes and v yielded by
\* adjs(u).
KahnEdges == {e \in NodeSet \X KNodes : e[2] \in Range(kadjs[e[1]])}

\* Every edge target belongs to nodes ("nodes: Set of all nodes in the
\* directed graph").
TargetsInNodes == \A e \in KahnEdges : e[2] \in NodeSet

KahnSucc(S) == {e[2] : e \in {d \in KahnEdges : d[1] \in S}}

RECURSIVE KahnClosure(_)
KahnClosure(T) == IF KahnSucc(T) \subseteq T THEN T ELSE KahnClosure(T \cup KahnSucc(T))

\* The nodes that a path of at least one edge leads to from a node of S.
KahnReachPlus(S) == KahnClosure(KahnSucc(S))

Acyclic == \A n \in NodeSet : n \notin KahnReachPlus({n})

\* The position of n in order.
Position(s, n) == CHOOSE i \in 1..Len(s) : s[i] = n

\* The simple cycles of the graph, each as the sequence of its nodes that
\* starts at its least node.
SimpleCycles ==
    {c \in UNION {[1..k -> NodeSet] : k \in 1..Cardinality(NodeSet)} :
        /\ \A i, j \in 1..Len(c) : i # j => c[i] # c[j]
        /\ \A i \in 2..Len(c) : c[1] < c[i]
        /\ \A i \in 1..Len(c) :
              <<c[i], c[IF i = Len(c) THEN 1 ELSE i + 1]>> \in KahnEdges}

CycleNodes == UNION {Range(c) : c \in SimpleCycles}

\* C5: on an acyclic graph whose edge targets all belong to nodes, kahn returns
\* each node of nodes exactly once and nothing else, and u before v for every
\* edge (u, v).
C5_KahnTopologicalOrder ==
    (kahn_pc = "done" /\ Acyclic /\ TargetsInNodes) =>
        /\ Len(order) = Cardinality(NodeSet)
        /\ Range(order) = NodeSet
        /\ \A e \in KahnEdges : Position(order, e[1]) < Position(order, e[2])

\* kahn returned all four nodes of an acyclic graph in which a node has two
\* incoming edges.
C5_Witness ==
    /\ kahn_pc = "done"
    /\ Acyclic
    /\ TargetsInNodes
    /\ Len(order) = 4
    /\ \E e, d \in KahnEdges : e[2] = d[2] /\ e[1] # d[1]

\* C6, as claimed: on a graph with exactly one simple cycle, kahn returns fewer
\* entries than nodes, and the nodes missing from the result are exactly the
\* nodes on the cycle.
C6_MissingIsExactlyTheCycle ==
    (kahn_pc = "done" /\ TargetsInNodes /\ Cardinality(SimpleCycles) = 1) =>
        /\ Len(order) < Cardinality(NodeSet)
        /\ NodeSet \ Range(order) = CycleNodes

\* C6, amended: on a graph with exactly one simple cycle, kahn returns fewer
\* entries than nodes, and the nodes missing from the result are exactly the
\* nodes on the cycle and the nodes reachable from it.
C6_MissingIsCycleAndDownstream ==
    (kahn_pc = "done" /\ TargetsInNodes /\ Cardinality(SimpleCycles) = 1) =>
        /\ Len(order) < Cardinality(NodeSet)
        /\ NodeSet \ Range(order) = CycleNodes \cup KahnReachPlus(CycleNodes)

\* kahn returned one node of a graph whose single cycle has two nodes, with a
\* node before the cycle and a node after it.
C6_Witness ==
    /\ kahn_pc = "done"
    /\ TargetsInNodes
    /\ Cardinality(SimpleCycles) = 1
    /\ Cardinality(CycleNodes) = 2
    /\ Cardinality(KahnReachPlus(CycleNodes)) = 3
    /\ Len(order) = 1


\* ------------------------------ claims: the on_step calls of kahn (C18)
\* The number of edges into n from the nodes of S.
EdgesInto(n, S) == Cardinality({e \in KahnEdges : e[2] = n /\ e[1] \in S})

\* C18: kahn calls on_step once per node of the order, in that order; at each
\* call the node is the last element of the order argument and is not in the
\* queue argument, every node of the queue argument has in-degree 0 in the
\* in-degree argument, and the in-degree argument counts the edges from all
\* nodes but those called before, the node's own outgoing edges included.
C18_KahnOnStepOncePerOrderedNode ==
    (kahn_pc # "idle" /\ TargetsInNodes) =>
        /\ Len(ksteps) = Len(order)
        /\ \A i \in 1..Len(ksteps) :
              LET c == ksteps[i] IN
                /\ c.node = order[i]
                /\ c.order = SubSeq(order, 1, i)
                /\ c.node \notin Range(c.queue)
                /\ \A n \in Range(c.queue) :
                      n \in DOMAIN c.in_degree /\ c.in_degree[n] = 0
                /\ \A n \in NodeSet :
                      DefaultGet(c.in_degree, n) =
                          EdgesInto(n, NodeSet \ {order[j] : j \in 1..(i - 1)})

\* kahn returned four nodes; its second on_step call was made with a queue
\* argument that was not empty, for a node with an edge to a node of in-degree 2.
C18_Witness ==
    /\ kahn_pc = "done"
    /\ TargetsInNodes
    /\ Len(ksteps) = 4
    /\ ksteps[2].queue # <<>>
    /\ \E e \in KahnEdges : e[1] = ksteps[2].node /\ ksteps[2].in_degree[e[2]] = 2


\* -------------------------------------------------- claims: UnionFind
UFNow == [parent |-> uf_parent, rank |-> rank]

\* find(a) == find(b), the two calls made one after the other
SameRoot(a, b) ==
    LET fa == UFFind(UFNow, a)
        fb == UFFind([parent |-> fa.parent, rank |-> fa.rank], b)
    IN  fa.ret = fb.ret

\* a and b are linked by the union calls made so far.
Linked(a, b) == a = b \/ \E g \in groups : a \in g /\ b \in g

\* The groups of the referenced elements (an element only passed to find is a
\* group of its own).
ReferencedGroups ==
    {{b \in DOMAIN uf_parent : Linked(a, b)} : a \in DOMAIN uf_parent}

\* C7: find(a) == find(b) exactly when a and b are linked by the union calls
\* made so far; the referenced elements have as many distinct roots as groups;
\* a second find on the same element returns what the first returned.
C7_UnionFindTracksGroups ==
    /\ \A a, b \in Elems : SameRoot(a, b) <=> Linked(a, b)
    /\ Cardinality({UFFind(UFNow, a).ret : a \in DOMAIN uf_parent})
          = Cardinality(ReferencedGroups)
    /\ Cardinality({a \in DOMAIN uf_parent : uf_parent[a] = a})
          = Cardinality(ReferencedGroups)
    /\ last_find # NoFind => UFFind(UFNow, last_find.x).ret = last_find.ret

\* All elements are referenced and form two groups, one of them of three
\* elements, and the latest call was a find on an element that is not a root.
C7_Witness ==
    /\ DOMAIN uf_parent = Elems
    /\ Cardinality(ReferencedGroups) = 2
    /\ \E g \in groups : Cardinality(g) = 3
    /\ last_find # NoFind
    /\ last_find.ret # last_find.x


\* ------------------------------- claims: the UnionFind forest (C17)
\* The element k parent links above x.
RECURSIVE Climb(_, _, _)
Climb(par, x, k) == IF k = 0 THEN x ELSE Climb(par, par[x], k - 1)

IsRoot(par, x) == par[x] = x

\* The root above x; an element without an entry is its own root.
RootOf(par, x) ==
    IF x \notin DOMAIN par THEN x ELSE Climb(par, x, Cardinality(DOMAIN par))

\* The number of parent links from x to its root.
Depth(par, x) ==
    Min({k \in 0..Cardinality(DOMAIN par) : IsRoot(par, Climb(par, x, k))})

\* The height of the tree rooted at r.
Height(par, r) ==
    LET ds == {Depth(par, x) : x \in {y \in DOMAIN par : RootOf(par, y) = r}}
    IN  CHOOSE d \in ds : \A o \in ds : o <= d

RankOf(rk, x) == IF x \in DOMAIN rk THEN rk[x] ELSE 0

\* The parent links form a forest, parent and rank have the same keys, and no
\* tree is higher than the rank of its root.
UFForest ==
    /\ DOMAIN uf_parent = DOMAIN rank
    /\ \A x \in DOMAIN uf_parent : uf_parent[x] \in DOMAIN uf_parent
    /\ \A x \in DOMAIN uf_parent : IsRoot(uf_parent, RootOf(uf_parent, x))
    /\ \A r \in DOMAIN uf_parent :
          IsRoot(uf_parent, r) => Height(uf_parent, r) <= rank[r]

\* A call union(x, y) on elements of different trees puts the root of lower
\* rank under the root of higher rank, and adds one to the rank of the
\* surviving root exactly when the two ranks were equal; no other rank changes.
UFUnionStep ==
    \A x, y \in Elems :
        Union(x, y) =>
            LET rx == RootOf(uf_parent, x)
                ry == RootOf(uf_parent, y)
            IN  rx # ry =>
                  \E lo, hi \in {rx, ry} :
                      /\ lo # hi
                      /\ RankOf(rank, lo) <= RankOf(rank, hi)
                      /\ uf_parent'[lo] = hi
                      /\ uf_parent'[hi] = hi
                      /\ rank'[hi] = RankOf(rank, hi)
                                       + (IF RankOf(rank, lo) = RankOf(rank, hi) THEN 1 ELSE 0)
                      /\ \A z \in DOMAIN rank' \ {hi} : rank'[z] = RankOf(rank, z)

\* C17: the parent links form a forest, parent and rank have the same key set,
\* the tree of a root r is at most rank[r] high, and a merging union attaches
\* the root of lower rank under the root of higher rank, raising the surviving
\* root's rank by one only when the ranks were equal.
C17_UnionByRankKeepsForest == [](UFForest) /\ [][UFUnionStep]_vars

\* A tree of height 2 whose root has rank 2 and which holds a root of rank 1
\* that was put under it.
C17_Witness ==
    \E r, z \in DOMAIN uf_parent :
        /\ IsRoot(uf_parent, r)
        /\ rank[r] = 2
        /\ Height(uf_parent, r) = 2
        /\ z # r
        /\ uf_parent[z] = r
        /\ rank[z] = 1


\* ------------------------------------ claims: DirectedGraph and Graph
\* C10: in every state of a Graph object, has_edge(a, b) holds exactly when
\* has_edge(b, a) holds, and get_weight(a, b) equals get_weight(b, a).
C10_GraphIsSymmetric ==
    cls = "Graph" =>
        \A a, b \in GNodes :
            /\ HasEdge(graph, a, b) <=> HasEdge(graph, b, a)
            /\ GetWeight(graph, a, b) = GetWeight(graph, b, a)

\* A Graph object holds all three nodes, an edge between every two of them,
\* one of weight 1 and one of weight 2, and an edge from a node to itself.
C10_Witness ==
    /\ cls = "Graph"
    /\ DOMAIN graph = GNodes
    /\ \A a, b \in GNodes : a # b => HasEdge(graph, a, b)
    /\ \E a, b, c \in GNodes :
          /\ GetWeight(graph, a, b) = {2}
          /\ GetWeight(graph, b, c) = {1}
          /\ HasEdge(graph, c, c)


\* C11: remove_node(n) on a graph holding n returns True, leaves n neither a
\* node nor an endpoint of a stored edge and changes no other node and no edge
\* not incident to n; on a graph without n it returns False and changes
\* nothing.
C11_RemoveNodeStep ==
    \A n \in GNodes :
        remove_node(n) =>
            IF n \in DOMAIN graph
            THEN /\ last_removed'.ret = TRUE
                 /\ DOMAIN graph' = (DOMAIN graph) \ {n}
                 /\ \A a, b \in GNodes : HasEdge(graph', a, b) => a # n /\ b # n
                 /\ \A a, b \in GNodes \ {n} :
                       GetWeight(graph', a, b) = GetWeight(graph, a, b)
            ELSE /\ last_removed'.ret = FALSE
                 /\ graph' = graph

\* Every edge's destination is a node of the graph.
DestinationsAreNodes == \A a \in DOMAIN graph : DOMAIN graph[a] \subseteq DOMAIN graph

\* C11: every call of remove_node has the effect above and, after any sequence
\* of graph operations, every edge's destination is itself a node of the graph.
C11_RemoveNodeRemovesIncidentEdges ==
    [](DestinationsAreNodes) /\ [][C11_RemoveNodeStep]_vars

\* The latest call removed a node and left two nodes with an edge from one to
\* the other.
C11_Witness ==
    /\ last_removed.ret
    /\ last_removed.n \notin DOMAIN graph
    /\ Cardinality(DOMAIN graph) = 2
    /\ \E a, b \in DOMAIN graph : a # b /\ HasEdge(graph, a, b)

\* C12: num_edges() of a Graph is the number of unordered pairs {a, b} of nodes,
\* a = b included, joined by a stored edge.
C12_NumEdgesCountsUndirectedEdges ==
    cls = "Graph" =>
        GNumEdges(graph) =
            Cardinality({{d[1], d[2]} : d \in {e \in GNodes \X GNodes :
                                                 HasEdge(graph, e[1], e[2])}})

\* C13: get_adjs(n) for a node n that is not in the graph yields an empty
\* sequence and raises nothing.
C13_GetAdjsOfAbsentNodeIsEmpty ==
    \A n \in GNodes \ DOMAIN graph : GetAdjs(graph, n) = [raised |-> "", ret |-> <<>>]


\* ------------------------------------------------------ claims: kruskal
StoredEdges(g) == {d \in KrNodes \X KrNodes : HasEdge(g, d[1], d[2])}

\* The edges of g read as undirected: the sets {a, b} with a stored edge.
Undirected(g) == {{d[1], d[2]} : d \in StoredEdges(g)}

RECURSIVE Component(_, _)
Component(U, S) ==
    LET T == S \cup UNION {e \in U : e \cap S # {}}
    IN  IF T = S THEN S ELSE Component(U, T)

\* The sets of nodes joined by paths of the undirected edges U.
Components(U) == {Component(U, {a}) : a \in KrNodes}

\* U has no cycle: every edge joins two nodes and merges two components.
IsForest(U) ==
    /\ \A e \in U : Cardinality(e) = 2
    /\ Cardinality(U) = Cardinality(KrNodes) - Cardinality(Components(U))

InputWeight(e) == LET a == CHOOSE x \in e : TRUE
                      b == CHOOSE x \in e : e = {a, x}
                  IN  graph[a][b]

\* The least total weight of a spanning forest of the input graph.
MSFWeight ==
    LET U == Undirected(graph)
        C == Components(U)
        n == Cardinality(KrNodes) - Cardinality(C)
    IN  Min({SumOver([e \in F |-> InputWeight(e)], F) :
               F \in {G \in SUBSET U :
                        /\ Cardinality(G) = n
                        /\ IsForest(G)
                        /\ Components(G) = C}})

\* C8: the result of kruskal on a Graph is a minimum spanning forest: its edges
\* are edges of the input with the same weights, it has no cycle when read as
\* undirected, it connects two nodes exactly when the input does, and its total
\* weight is the minimum spanning forest weight of the input.
C8_KruskalIsMinimumSpanningForest ==
    kruskal_pc = "done" =>
        /\ \A d \in StoredEdges(mst) :
              GetWeight(mst, d[1], d[2]) = GetWeight(graph, d[1], d[2])
        /\ IsForest(Undirected(mst))
        /\ Cardinality(StoredEdges(mst)) = Cardinality(Undirected(mst))
        /\ Components(Undirected(mst)) = Components(Undirected(graph))
        /\ SumOver([d \in StoredEdges(mst) |-> mst[d[1]][d[2]]], StoredEdges(mst))
              = MSFWeight

\* kruskal returned a tree of weight 4 over the four nodes of a graph with at
\* least five edges, dropping an edge of weight 1.
C8_Witness ==
    /\ kruskal_pc = "done"
    /\ Cardinality(Undirected(graph)) >= 5
    /\ Cardinality(Undirected(mst)) = 3
    /\ MSFWeight = 4
    /\ \E e \in Undirected(graph) \ Undirected(mst) : InputWeight(e) = 1

====
